---- MODULE Spec2Model ----
(***************************************************************************)
(* A model of lib/element.c: the rectangular Element of the Dia diagram    *)
(* editor.  The element's pose (corner, width, height), its eight resize   *)
(* handles, its connection points and its pose undo record are the state;  *)
(* every function of element.c that changes them is one action.            *)
(*                                                                         *)
(* The C type `real` (double) is modelled by exact rational numbers        *)
(* <<numerator, denominator>> in lowest terms: rounding is not modelled.   *)
(***************************************************************************)
EXTENDS Integers, Sequences, FiniteSets, TLC

(***************************************************************************)
(* Bounds of the model.                                                    *)
(***************************************************************************)
\* drag targets and initial poses lie on the integer grid 0..MaxCoord
MaxCoord == 2
\* aspect ratios are 1/k and k for k in 1..MaxAspect
MaxAspect == 2
\* element_init is called with 0..MaxHandles handles
MaxHandles == 10
\* element_init is called with 0..MaxConnections connection points
MaxConnections == 11
\* an undoable gesture is up to MaxMoves resize calls
MaxMoves == 2

(***************************************************************************)
(* real: exact rational arithmetic.                                        *)
(***************************************************************************)
RECURSIVE Gcd(_, _)
Gcd(a, b) == IF b = 0 THEN a ELSE Gcd(b, a % b)

Abs(n) == IF n < 0 THEN -n ELSE n

\* the rational n/d (d # 0) in lowest terms with a positive denominator
Rat(n, d) ==
  LET s == IF d < 0 THEN -1 ELSE 1
      g == Gcd(Abs(n), Abs(d))
  IN  <<(s * n) \div g, (s * d) \div g>>

R(n) == <<n, 1>>

RAdd(a, b) == Rat(a[1] * b[2] + b[1] * a[2], a[2] * b[2])
RSub(a, b) == Rat(a[1] * b[2] - b[1] * a[2], a[2] * b[2])
RMul(a, b) == Rat(a[1] * b[1], a[2] * b[2])
RDiv(a, b) == Rat(a[1] * b[2], a[2] * b[1])
RLt(a, b)  == a[1] * b[2] < b[1] * a[2]
RGt(a, b)  == RLt(b, a)

Point(x, y) == [x |-> x, y |-> y]

\* point_sub (&p, &c): p := p - c
point_sub(p, c) == Point(RSub(p.x, c.x), RSub(p.y, c.y))

(***************************************************************************)
(* HandleId.                                                               *)
(***************************************************************************)
HANDLE_RESIZE_NW == 0
HANDLE_RESIZE_N == 1
HANDLE_RESIZE_NE == 2
HANDLE_RESIZE_W == 3
HANDLE_RESIZE_E == 4
HANDLE_RESIZE_SW == 5
HANDLE_RESIZE_S == 6
HANDLE_RESIZE_SE == 7
HANDLE_MOVE_STARTPOINT == 8
HANDLE_MOVE_ENDPOINT == 9
HANDLE_CUSTOM1 == 200

ResizeIds == HANDLE_RESIZE_NW .. HANDLE_RESIZE_SE
HandleIds == ResizeIds \cup {HANDLE_MOVE_STARTPOINT, HANDLE_CUSTOM1}

(***************************************************************************)
(* The state.                                                              *)
(***************************************************************************)
VARIABLES
  corner,           \* elem->corner
  width,            \* elem->width
  height,           \* elem->height
  position,         \* elem->object.position
  resize_handles,   \* elem->resize_handles[0..7]
  cps,              \* the connection points handed to the layout functions
  num_handles,      \* elem->object.num_handles
  num_connections,  \* elem->object.num_connections
  initialized,      \* object_init () has run on elem->object
  ec,               \* the DiaElementObjectChange, or NoChange
  call,             \* history: the last call, its arguments and the pose it found
  done,             \* history: the layout functions that have run
  gesture,          \* history: the pose at element_change_new () and at the revert
  swaps             \* history: the states before the last two swaps in a row

hist == <<call, done, gesture, swaps>>
vars == <<corner, width, height, position, resize_handles, cps,
          num_handles, num_connections, initialized, ec,
          call, done, gesture, swaps>>

Zero == R(0)
One == R(1)
Half == Rat(1, 2)

\* the pose of an element as a value
Pose(c, w, h) == [corner |-> c, width |-> w, height |-> h]
Elem == Pose(corner, width, height)

(***************************************************************************)
(* element_move_handle: the free resize engine.                            *)
(***************************************************************************)
\* the west edge follows the pointer while it stays left of the east edge
MoveWestEdge_notStrict(e, to, p) ==
  IF ~RLt(RAdd(e.corner.x, e.width), to.x)
    THEN [e EXCEPT !.corner.x = RAdd(@, p.x), !.width = RSub(@, p.x)]
    ELSE e

MoveWestEdge(e, to, p) ==
  IF RLt(to.x, RAdd(e.corner.x, e.width))
    THEN [e EXCEPT !.corner.x = RAdd(@, p.x), !.width = RSub(@, p.x)]
    ELSE e

\* the north edge follows the pointer while it stays above the south edge
MoveNorthEdge(e, to, p) ==
  IF RLt(to.y, RAdd(e.corner.y, e.height))
    THEN [e EXCEPT !.corner.y = RAdd(@, p.y), !.height = RSub(@, p.y)]
    ELSE e

\* the east edge is set from the pointer while it is right of the corner
MoveEastEdge_unguarded(e, p) == [e EXCEPT !.width = p.x]

MoveEastEdge(e, p) == IF RGt(p.x, Zero) THEN [e EXCEPT !.width = p.x] ELSE e

\* the south edge is set from the pointer while it is below the corner
MoveSouthEdge(e, p) == IF RGt(p.y, Zero) THEN [e EXCEPT !.height = p.y] ELSE e

\* the switch on the handle id, on the pose e with p = to - corner
move_handle_switch(e, id, to, p) ==
  CASE id = HANDLE_RESIZE_NW -> MoveNorthEdge(MoveWestEdge(e, to, p), to, p)
    [] id = HANDLE_RESIZE_N  -> MoveNorthEdge(e, to, p)
    [] id = HANDLE_RESIZE_NE -> MoveNorthEdge(MoveEastEdge(e, p), to, p)
    [] id = HANDLE_RESIZE_W  -> MoveWestEdge(e, to, p)
    [] id = HANDLE_RESIZE_E  -> MoveEastEdge(e, p)
    [] id = HANDLE_RESIZE_SW -> MoveSouthEdge(MoveWestEdge(e, to, p), p)
    [] id = HANDLE_RESIZE_S  -> MoveSouthEdge(e, p)
    [] id = HANDLE_RESIZE_SE -> MoveSouthEdge(MoveEastEdge(e, p), p)
    [] OTHER -> e

\* g_return_val_if_fail (id >= HANDLE_RESIZE_NW) and (id <= HANDLE_RESIZE_SE)
move_handle_accepts(id) == id >= HANDLE_RESIZE_NW /\ id <= HANDLE_RESIZE_SE

\* the value element_move_handle returns: NULL on every path
move_handle_returns(id) == "NULL"

element_move_handle(id, to) ==
  /\ \E p \in {point_sub(to, corner)} :
     \E e \in {IF move_handle_accepts(id)
                 THEN move_handle_switch(Elem, id, to, p)
                 ELSE Elem} :
       /\ corner' = e.corner
       /\ width' = e.width
       /\ height' = e.height
  /\ UNCHANGED <<position, resize_handles, cps, num_handles, num_connections,
                 initialized, ec>>

(***************************************************************************)
(* element_move_handle_aspect: the resize engine that keeps width:height.   *)
(***************************************************************************)
AspectTarget(w, h, nw, nh, mx, my) ==
  [width |-> w, height |-> h, new_width |-> nw, new_height |-> nh,
   move_x |-> mx, move_y |-> my]

\* the switch on the handle id: the wanted size, and the share of the size
\* change that moves the corner
move_handle_aspect_switch(e, id, p) ==
  LET w == e.width
      h == e.height
  IN
  CASE id = HANDLE_RESIZE_NW ->
         AspectTarget(w, h, RSub(w, p.x), RSub(h, p.y), One, One)
    [] id = HANDLE_RESIZE_N  ->
         AspectTarget(w, h, Zero, RSub(h, p.y), Half, One)
    [] id = HANDLE_RESIZE_NE ->
         AspectTarget(w, h, p.x, RSub(h, p.y), Zero, One)
    [] id = HANDLE_RESIZE_W  ->
         AspectTarget(w, h, RSub(w, p.x), Zero, One, Half)
    [] id = HANDLE_RESIZE_E  ->
         AspectTarget(w, h, p.x, Zero, Zero, Half)
    [] id = HANDLE_RESIZE_SW ->
         AspectTarget(w, h, RSub(w, p.x), p.y, One, Zero)
    [] id = HANDLE_RESIZE_S  ->
         AspectTarget(w, h, Zero, p.y, Half, Zero)
    [] id = HANDLE_RESIZE_SE ->
         AspectTarget(w, h, p.x, p.y, Zero, Zero)
    [] OTHER -> AspectTarget(w, h, Zero, Zero, Zero, Zero)

\* "Which of the two versions to use": the larger rectangle of the ratio
aspect_conform_widthOnly(t, aspect_ratio) ==
  [t EXCEPT !.new_width = RMul(t.new_height, aspect_ratio)]

aspect_conform(t, aspect_ratio) ==
  IF RGt(t.new_width, RMul(t.new_height, aspect_ratio))
    THEN [t EXCEPT !.new_height = RDiv(t.new_width, aspect_ratio)]
    ELSE [t EXCEPT !.new_width = RMul(t.new_height, aspect_ratio)]

\* a negative size collapses the element to nothing
aspect_clamp(t) ==
  IF RLt(t.new_width, Zero) \/ RLt(t.new_height, Zero)
    THEN [t EXCEPT !.new_width = Zero, !.new_height = Zero]
    ELSE t

\* the corner moves by its share of the size change, and the size is written
aspect_write_cornerKept(e, t) == Pose(e.corner, t.new_width, t.new_height)

aspect_write(e, t) ==
  Pose(Point(RSub(e.corner.x, RMul(RSub(t.new_width, t.width), t.move_x)),
             RSub(e.corner.y, RMul(RSub(t.new_height, t.height), t.move_y))),
       t.new_width, t.new_height)

\* g_return_if_fail (id >= HANDLE_RESIZE_NW) and (id <= HANDLE_RESIZE_SE)
move_handle_aspect_accepts_any(id) == TRUE

move_handle_aspect_accepts(id) == id >= HANDLE_RESIZE_NW /\ id <= HANDLE_RESIZE_SE

element_move_handle_aspect(id, to, aspect_ratio) ==
  /\ \E p \in {point_sub(to, corner)} :
     \E t0 \in {move_handle_aspect_switch(Elem, id, p)} :
     \E t1 \in {aspect_conform(t0, aspect_ratio)} :
     \E t2 \in {aspect_clamp(t1)} :
     \E e \in {IF move_handle_aspect_accepts(id)
                 THEN aspect_write(Elem, t2)
                 ELSE Elem} :
       /\ corner' = e.corner
       /\ width' = e.width
       /\ height' = e.height
  /\ UNCHANGED <<position, resize_handles, cps, num_handles, num_connections,
                 initialized, ec>>

(***************************************************************************)
(* element_update_handles: the eight resize handles on the rectangle.      *)
(***************************************************************************)
HandleAt(id, x, y) == [id |-> id, pos |-> Point(x, y)]

\* the id and the position written to each of resize_handles[0..7]
handle_layout_eastMidOnCorner(e) ==
  LET left   == e.corner.x
      middle == RAdd(e.corner.x, RDiv(e.width, R(2)))
      right  == RAdd(e.corner.x, e.width)
      top    == e.corner.y
      centre == RAdd(e.corner.y, RDiv(e.height, R(2)))
      bottom == RAdd(e.corner.y, e.height)
  IN  [i \in 0 .. 7 |->
        CASE i = 0 -> HandleAt(HANDLE_RESIZE_NW, left, top)
          [] i = 1 -> HandleAt(HANDLE_RESIZE_N, middle, top)
          [] i = 2 -> HandleAt(HANDLE_RESIZE_NE, right, top)
          [] i = 3 -> HandleAt(HANDLE_RESIZE_W, left, centre)
          [] i = 4 -> HandleAt(HANDLE_RESIZE_E, right, bottom)
          [] i = 5 -> HandleAt(HANDLE_RESIZE_SW, left, bottom)
          [] i = 6 -> HandleAt(HANDLE_RESIZE_S, middle, bottom)
          [] i = 7 -> HandleAt(HANDLE_RESIZE_SE, right, bottom)]

handle_layout(e) ==
  LET left   == e.corner.x
      middle == RAdd(e.corner.x, RDiv(e.width, R(2)))
      right  == RAdd(e.corner.x, e.width)
      top    == e.corner.y
      centre == RAdd(e.corner.y, RDiv(e.height, R(2)))
      bottom == RAdd(e.corner.y, e.height)
  IN  [i \in 0 .. 7 |->
        CASE i = 0 -> HandleAt(HANDLE_RESIZE_NW, left, top)
          [] i = 1 -> HandleAt(HANDLE_RESIZE_N, middle, top)
          [] i = 2 -> HandleAt(HANDLE_RESIZE_NE, right, top)
          [] i = 3 -> HandleAt(HANDLE_RESIZE_W, left, centre)
          [] i = 4 -> HandleAt(HANDLE_RESIZE_E, right, centre)
          [] i = 5 -> HandleAt(HANDLE_RESIZE_SW, left, bottom)
          [] i = 6 -> HandleAt(HANDLE_RESIZE_S, middle, bottom)
          [] i = 7 -> HandleAt(HANDLE_RESIZE_SE, right, bottom)]

element_update_handles ==
  /\ \E l \in {handle_layout(Elem)} :
       resize_handles' =
         [i \in 0 .. 7 |->
           [resize_handles[i] EXCEPT !.id = l[i].id, !.pos = l[i].pos]]
  /\ UNCHANGED <<corner, width, height, position, cps, num_handles,
                 num_connections, initialized, ec>>

(***************************************************************************)
(* Connection points.                                                      *)
(***************************************************************************)
DIR_NONE == {}
DIR_NORTH == {"N"}
DIR_EAST == {"E"}
DIR_SOUTH == {"S"}
DIR_WEST == {"W"}
DIR_ALL == DIR_NORTH \cup DIR_EAST \cup DIR_SOUTH \cup DIR_WEST

CP_FLAG_ANYPLACE == 1
CP_FLAGS_MAIN == 3

CpAt(x, y, d) == [pos |-> Point(x, y), directions |-> d]

\* element_update_connections_rectangle: the position and the directions
\* written to each of cps[0..8]
connections_rectangle(e) ==
  LET left   == e.corner.x
      middle == RAdd(e.corner.x, RDiv(e.width, R(2)))
      right  == RAdd(e.corner.x, e.width)
      top    == e.corner.y
      centre == RAdd(e.corner.y, RDiv(e.height, R(2)))
      bottom == RAdd(e.corner.y, e.height)
  IN  [i \in 0 .. 8 |->
        CASE i = 0 -> CpAt(left, top, DIR_NORTH \cup DIR_WEST)
          [] i = 1 -> CpAt(middle, top, DIR_NORTH)
          [] i = 2 -> CpAt(right, top, DIR_NORTH \cup DIR_EAST)
          [] i = 3 -> CpAt(left, centre, DIR_WEST)
          [] i = 4 -> CpAt(right, centre, DIR_EAST)
          [] i = 5 -> CpAt(left, bottom, DIR_SOUTH \cup DIR_WEST)
          [] i = 6 -> CpAt(middle, bottom, DIR_SOUTH)
          [] i = 7 -> CpAt(right, bottom, DIR_SOUTH \cup DIR_EAST)
          [] i = 8 -> CpAt(middle, centre, DIR_ALL)]

\* g_assert (elem->object.num_connections >= 9) ends the program when it
\* fails: the call has no successor state then
element_update_connections_rectangle ==
  /\ num_connections >= 9
  /\ \E l \in {connections_rectangle(Elem)} :
       cps' = [i \in DOMAIN cps |->
                IF i <= 8
                  THEN [cps[i] EXCEPT !.pos = l[i].pos,
                                      !.directions = l[i].directions]
                  ELSE cps[i]]
  /\ UNCHANGED <<corner, width, height, position, resize_handles, num_handles,
                 num_connections, initialized, ec>>

\* one round of the loop of element_update_connections_directions: the
\* directions of a connection point cp of an element with the given center
connection_directions_keepsOld(cp, center) ==
  cp.directions
    \cup (IF RGt(cp.pos.x, center.x) THEN DIR_EAST
          ELSE IF RLt(cp.pos.x, center.x) THEN DIR_WEST ELSE DIR_NONE)
    \cup (IF RGt(cp.pos.y, center.y) THEN DIR_SOUTH
          ELSE IF RLt(cp.pos.y, center.y) THEN DIR_NORTH ELSE DIR_NONE)
    \cup (IF cp.flags = CP_FLAGS_MAIN THEN DIR_ALL ELSE DIR_NONE)

connection_directions(cp, center) ==
  DIR_NONE
    \cup (IF RGt(cp.pos.x, center.x) THEN DIR_EAST
          ELSE IF RLt(cp.pos.x, center.x) THEN DIR_WEST ELSE DIR_NONE)
    \cup (IF RGt(cp.pos.y, center.y) THEN DIR_SOUTH
          ELSE IF RLt(cp.pos.y, center.y) THEN DIR_NORTH ELSE DIR_NONE)
    \cup (IF cp.flags = CP_FLAGS_MAIN THEN DIR_ALL ELSE DIR_NONE)

element_center(e) ==
  Point(RAdd(e.corner.x, RDiv(e.width, R(2))),
        RAdd(e.corner.y, RDiv(e.height, R(2))))

element_update_connections_directions ==
  /\ \E center \in {element_center(Elem)} :
       cps' = [i \in DOMAIN cps |->
                IF i < num_connections
                  THEN [cps[i] EXCEPT
                          !.directions = connection_directions(cps[i], center)]
                  ELSE cps[i]]
  /\ UNCHANGED <<corner, width, height, position, resize_handles, num_handles,
                 num_connections, initialized, ec>>

(***************************************************************************)
(* element_init.                                                           *)
(***************************************************************************)
\* g_return_if_fail (num_handles >= 8)
element_init_accepts(nh, nc) == nh >= 8

\* object_init (obj, num_handles, num_connections)
object_init(nh, nc) ==
  /\ num_handles' = nh
  /\ num_connections' = nc
  /\ initialized' = TRUE

element_init(nh, nc) ==
  /\ IF element_init_accepts(nh, nc)
       THEN /\ object_init(nh, nc)
            /\ resize_handles' =
                 [i \in 0 .. 7 |->
                   [resize_handles[i] EXCEPT
                      !.connect_type = "HANDLE_NONCONNECTABLE",
                      !.connected_to = "NULL",
                      !.type = "HANDLE_MAJOR_CONTROL"]]
       ELSE UNCHANGED <<num_handles, num_connections, initialized,
                        resize_handles>>
  /\ UNCHANGED <<corner, width, height, position, cps, ec>>

(***************************************************************************)
(* DiaElementObjectChange: the pose undo record.                           *)
(***************************************************************************)
NoChange == [element |-> "none"]

\* element_change_new (corner, width, height, elem): the three pose
\* arguments are not read
element_change_new(corner_arg, width_arg, height_arg) ==
  /\ ec' = [element |-> "elem", corner |-> corner, width |-> width,
            height |-> height]
  /\ UNCHANGED <<corner, width, height, position, resize_handles, cps,
                 num_handles, num_connections, initialized>>

\* g_return_if_fail (!obj || obj == &(ec->element->object))
change_swap_accepts(obj) == obj = "NULL" \/ obj = ec.element

\* the three exchanges of _element_change_swap, as the new values of
\* <<ec, elem->corner, elem->object.position, elem->width, elem->height>>
change_swap_widthNotRestored(r, c, pos, w, h) ==
  <<[r EXCEPT !.corner = pos, !.width = w, !.height = h], c, r.corner, w, r.height>>

change_swap(r, c, pos, w, h) ==
  <<[r EXCEPT !.corner = pos, !.width = w, !.height = h], c, r.corner, r.width,
    r.height>>

element_change_swap(obj) ==
  /\ ec # NoChange
  /\ \E n \in {IF change_swap_accepts(obj)
                 THEN change_swap(ec, corner, position, width, height)
                 ELSE <<ec, corner, position, width, height>>} :
       /\ ec' = n[1]
       /\ corner' = n[2]
       /\ position' = n[3]
       /\ width' = n[4]
       /\ height' = n[5]
  /\ UNCHANGED <<resize_handles, cps, num_handles, num_connections, initialized>>

dia_element_object_change_revert(obj) == element_change_swap(obj)

dia_element_object_change_apply(obj) == element_change_swap(obj)

(***************************************************************************)
(* Construction, and the inputs of the calls.                              *)
(***************************************************************************)
Origin == Point(Zero, Zero)
NoCall == [op |-> "none"]
NoGesture == [phase |-> "none"]
NoSwaps == [count |-> 0]

\* a handle slot of freshly allocated (zeroed) memory
BlankHandle ==
  [id |-> HANDLE_RESIZE_NW, pos |-> Origin, type |-> "HANDLE_NON_MOVABLE",
   connect_type |-> "HANDLE_NONCONNECTABLE", connected_to |-> "NULL"]

\* the same slot after element_init
InitHandle == [BlankHandle EXCEPT !.type = "HANDLE_MAJOR_CONTROL"]

\* a connection point the subtype has not placed yet
BlankCp(flags) == [pos |-> Origin, directions |-> DIR_ALL, flags |-> flags]

Grid == 0 .. MaxCoord
Targets == {Point(R(x), R(y)) : x \in Grid, y \in Grid}
Aspects == {Rat(1, k) : k \in 1 .. MaxAspect} \cup {R(k) : k \in 1 .. MaxAspect}
InitPoses == {Pose(c, R(w), R(h)) : c \in Targets, w \in Grid, h \in Grid}

NoHistory ==
  /\ call = NoCall
  /\ done = {}
  /\ gesture = NoGesture
  /\ swaps = NoSwaps

\* an element a subtype has allocated, initialized with nh handles and nc
\* connection points, and placed at pose e
Constructed(e, nh, nc) ==
  /\ corner = e.corner
  /\ width = e.width
  /\ height = e.height
  /\ position = e.corner
  /\ resize_handles = [i \in 0 .. 7 |-> InitHandle]
  /\ num_handles = nh
  /\ num_connections = nc
  /\ initialized = TRUE
  /\ ec = NoChange
  /\ NoHistory

PlainCps == [i \in 0 .. 8 |-> BlankCp(IF i = 8 THEN CP_FLAGS_MAIN ELSE 0)]

(***************************************************************************)
(* SpecResize: every sequence of resize calls on an element, followed on   *)
(* the integer grid.                                                       *)
(***************************************************************************)
Lim == MaxCoord + 1

\* r is an integer of lo..hi
OnGrid(r, lo, hi) == r[2] = 1 /\ lo <= r[1] /\ r[1] <= hi

\* the poses a resize sequence is followed through: the corner on the grid
\* of the drag targets, the size an integer of at most Lim either way
InBox(e) ==
  /\ OnGrid(e.corner.x, 0, MaxCoord)
  /\ OnGrid(e.corner.y, 0, MaxCoord)
  /\ OnGrid(e.width, -Lim, Lim)
  /\ OnGrid(e.height, -Lim, Lim)

InitResize ==
  /\ \E w \in Grid, h \in Grid : Constructed(Pose(Origin, R(w), R(h)), 8, 9)
  /\ cps = PlainCps

ResizeFree ==
  \E id \in HandleIds, to \in Targets :
    /\ element_move_handle(id, to)
    /\ InBox(Pose(corner', width', height'))
    /\ UNCHANGED hist

ResizeAspect ==
  \E id \in HandleIds, to \in Targets, a \in Aspects :
    /\ element_move_handle_aspect(id, to, a)
    /\ InBox(Pose(corner', width', height'))
    /\ UNCHANGED hist

NextResize == ResizeFree \/ ResizeAspect

SpecResize == InitResize /\ [][NextResize]_vars

(***************************************************************************)
(* SpecCall: one resize call on an element at any pose of the grid, with   *)
(* the call and the pose it found kept in `call`.                          *)
(***************************************************************************)
InitCall ==
  /\ \E e \in InitPoses : Constructed(e, 8, 9)
  /\ cps = PlainCps

CallMoveHandle ==
  \E id \in HandleIds, to \in Targets :
    /\ call = NoCall
    /\ element_move_handle(id, to)
    /\ call' = [op |-> "element_move_handle", id |-> id, to |-> to,
                aspect |-> One, pre |-> Elem, ret |-> move_handle_returns(id)]
    /\ UNCHANGED <<done, gesture, swaps>>

CallMoveHandleAspect ==
  \E id \in HandleIds, to \in Targets, a \in Aspects :
    /\ call = NoCall
    /\ element_move_handle_aspect(id, to, a)
    /\ call' = [op |-> "element_move_handle_aspect", id |-> id, to |-> to,
                aspect |-> a, pre |-> Elem, ret |-> "void"]
    /\ UNCHANGED <<done, gesture, swaps>>

NextCall == CallMoveHandle \/ CallMoveHandleAspect

SpecCall == InitCall /\ [][NextCall]_vars

(***************************************************************************)
(* SpecLayout: the layout functions, in any order and any number of times, *)
(* on an element at any pose of the grid with nine or ten connection       *)
(* points.                                                                 *)
(***************************************************************************)
\* where a subtype may have put a tenth connection point
ExtraPoints == {Origin, Point(R(MaxCoord), One)}

InitLayout ==
  /\ \E e \in InitPoses, nc \in {9, 10} : Constructed(e, 8, nc)
  /\ \E main \in {0, CP_FLAGS_MAIN}, pt \in ExtraPoints,
        f \in {CP_FLAG_ANYPLACE, CP_FLAGS_MAIN} :
       cps = [i \in 0 .. num_connections - 1 |->
               IF i = 9 THEN [BlankCp(f) EXCEPT !.pos = pt]
               ELSE BlankCp(IF i = 8 THEN main ELSE 0)]

UpdateHandles ==
  /\ element_update_handles
  /\ call' = [op |-> "element_update_handles"]
  /\ done' = done \cup {"element_update_handles"}
  /\ UNCHANGED <<gesture, swaps>>

UpdateConnectionsRectangle ==
  /\ element_update_connections_rectangle
  /\ call' = [op |-> "element_update_connections_rectangle"]
  /\ done' = done \cup {"element_update_connections_rectangle"}
  /\ UNCHANGED <<gesture, swaps>>

UpdateConnectionsDirections ==
  /\ element_update_connections_directions
  /\ call' = [op |-> "element_update_connections_directions"]
  /\ done' = done \cup {"element_update_connections_directions"}
  /\ UNCHANGED <<gesture, swaps>>

NextLayout ==
  UpdateHandles \/ UpdateConnectionsRectangle \/ UpdateConnectionsDirections

SpecLayout == InitLayout /\ [][NextLayout]_vars

(***************************************************************************)
(* SpecInit: one call of element_init on a freshly allocated element.      *)
(***************************************************************************)
InitInit ==
  /\ corner = Origin
  /\ width = Zero
  /\ height = Zero
  /\ position = Origin
  /\ resize_handles = [i \in 0 .. 7 |-> BlankHandle]
  /\ cps = PlainCps
  /\ num_handles = 0
  /\ num_connections = 0
  /\ initialized = FALSE
  /\ ec = NoChange
  /\ NoHistory

CallInit ==
  \E nh \in 0 .. MaxHandles, nc \in 0 .. MaxConnections :
    /\ call = NoCall
    /\ element_init(nh, nc)
    /\ call' = [op |-> "element_init", num_handles |-> nh,
                num_connections |-> nc]
    /\ UNCHANGED <<done, gesture, swaps>>

NextInit == CallInit

SpecInit == InitInit /\ [][NextInit]_vars

(***************************************************************************)
(* SpecUndo: one undoable gesture.  The host takes the undo record, then   *)
(* resizes the element up to MaxMoves times, then reverts and applies the  *)
(* record.                                                                 *)
(***************************************************************************)
\* the drags of the gesture go to the diagonal of the grid
UndoTargets == {Point(R(k), R(k)) : k \in Grid}

\* the poses the gesture starts from
UndoPoses == {Pose(c, R(MaxCoord), One) : c \in UndoTargets}

Snapshot == [elem |-> Elem, position |-> position, ec |-> ec]

InitUndo ==
  /\ \E e \in UndoPoses : Constructed(e, 8, 9)
  /\ cps = PlainCps

ChangeNew ==
  \E e \in {Elem, Pose(Origin, Zero, Zero)} :
    /\ ec = NoChange
    /\ element_change_new(e.corner, e.width, e.height)
    /\ gesture' = [phase |-> "open", P |-> Elem, Q |-> Elem, moves |-> 0]
    /\ UNCHANGED <<call, done, swaps>>

GestureFree ==
  \E id \in HandleIds, to \in UndoTargets :
    /\ gesture.phase = "open"
    /\ gesture.moves < MaxMoves
    /\ element_move_handle(id, to)
    /\ gesture' = [gesture EXCEPT !.moves = @ + 1]
    /\ UNCHANGED <<call, done, swaps>>

GestureAspect ==
  \E id \in HandleIds, to \in UndoTargets :
    /\ gesture.phase = "open"
    /\ gesture.moves < MaxMoves
    /\ element_move_handle_aspect(id, to, One)
    /\ gesture' = [gesture EXCEPT !.moves = @ + 1]
    /\ UNCHANGED <<call, done, swaps>>

\* the history after a swap the record accepted
Swapped ==
  swaps' = [count |-> IF swaps.count = 0 THEN 1 ELSE 2,
            before1 |-> Snapshot,
            before2 |-> IF swaps.count = 0 THEN Snapshot ELSE swaps.before1]

Revert ==
  \E obj \in {"NULL", "elem", "other"} :
    /\ dia_element_object_change_revert(obj)
    /\ IF change_swap_accepts(obj)
         THEN /\ Swapped
              /\ gesture' = [gesture EXCEPT
                   !.phase = IF @ = "open" THEN "reverted" ELSE "closed",
                   !.Q = IF gesture.phase = "open" THEN Elem ELSE @]
         ELSE UNCHANGED <<gesture, swaps>>
    /\ UNCHANGED <<call, done>>

Apply ==
  \E obj \in {"NULL", "elem", "other"} :
    /\ dia_element_object_change_apply(obj)
    /\ IF change_swap_accepts(obj)
         THEN /\ Swapped
              /\ gesture' = [gesture EXCEPT !.phase = "closed"]
         ELSE UNCHANGED <<gesture, swaps>>
    /\ UNCHANGED <<call, done>>

NextUndo == ChangeNew \/ GestureFree \/ GestureAspect \/ Revert \/ Apply

SpecUndo == InitUndo /\ [][NextUndo]_vars

(***************************************************************************)
(* The claims.  What the resize engines are to do is stated from the rule  *)
(* tables: the side of the rectangle a handle holds on each axis.          *)
(***************************************************************************)
RLe(a, b) == ~RLt(b, a)

RecordPose == Pose(ec.corner, ec.width, ec.height)

XSide(id) ==
  IF id \in {HANDLE_RESIZE_NW, HANDLE_RESIZE_W, HANDLE_RESIZE_SW} THEN "near"
  ELSE IF id \in {HANDLE_RESIZE_NE, HANDLE_RESIZE_E, HANDLE_RESIZE_SE} THEN "far"
  ELSE "none"

YSide(id) ==
  IF id \in {HANDLE_RESIZE_NW, HANDLE_RESIZE_N, HANDLE_RESIZE_NE} THEN "near"
  ELSE IF id \in {HANDLE_RESIZE_SW, HANDLE_RESIZE_S, HANDLE_RESIZE_SE} THEN "far"
  ELSE "none"

\* the rule of one axis: <<corner, size>> after a drag to t
AxisRule(side, c, size, t) ==
  LET p == RSub(t, c) IN
  CASE side = "near" ->
         IF RLt(t, RAdd(c, size)) THEN <<RAdd(c, p), RSub(size, p)>> ELSE <<c, size>>
    [] side = "far" -> IF RGt(p, Zero) THEN <<c, p>> ELSE <<c, size>>
    [] OTHER -> <<c, size>>

\* the size the aspect engine is asked for on one axis (0 when unset)
AxisWanted(side, c, size, t) ==
  LET p == RSub(t, c) IN
  CASE side = "near" -> RSub(size, p)
    [] side = "far" -> p
    [] OTHER -> Zero

\* the anchor fraction of one axis
AnchorFraction(side) ==
  CASE side = "near" -> One
    [] side = "far" -> Zero
    [] OTHER -> Half

FreeCall == call.op = "element_move_handle"
AspectCall == call.op = "element_move_handle_aspect"

\* C1: a record taken at pose P, the element then resized to pose Q, one
\* revert: the element is at P again and the record holds Q.
C1_UndoRestoresPose ==
  gesture.phase = "reverted" => (Elem = gesture.P /\ RecordPose = gesture.Q)

\* C2: after any sequence of move_handle and move_handle_aspect calls on an
\* element of non-negative size, width >= 0 and height >= 0.
C2_SizeNeverNegative == RLe(Zero, width) /\ RLe(Zero, height)

C2_Witness == corner # Origin /\ width = Zero /\ RGt(height, Zero)

\* C3: move_handle with a resize id gives on each axis the pose of the rule
\* table: a west/north side moves the corner by p and shrinks the size by p
\* only when `to` is strictly before the far edge, an east/south side sets
\* the size to p only when p > 0, an axis the handle does not hold is kept.
C3_MoveHandleRuleTable ==
  (FreeCall /\ call.id \in ResizeIds) =>
    /\ <<corner.x, width>> =
         AxisRule(XSide(call.id), call.pre.corner.x, call.pre.width, call.to.x)
    /\ <<corner.y, height>> =
         AxisRule(YSide(call.id), call.pre.corner.y, call.pre.height, call.to.y)

\* NW dragged exactly onto the SE corner of an element with an area
C3_Witness ==
  /\ FreeCall
  /\ call.id = HANDLE_RESIZE_NW
  /\ RGt(call.pre.width, Zero) /\ RGt(call.pre.height, Zero)
  /\ call.to.x = RAdd(call.pre.corner.x, call.pre.width)
  /\ call.to.y = RAdd(call.pre.corner.y, call.pre.height)
  /\ Elem = call.pre

\* C4: move_handle_aspect with a resize id keeps the handle's anchor
\* (corner.x + ax * width, corner.y + ay * height) where it was, also when
\* the size is clamped to zero.
C4_AspectAnchorFixed ==
  (AspectCall /\ call.id \in ResizeIds) =>
    LET ax == AnchorFraction(XSide(call.id))
        ay == AnchorFraction(YSide(call.id))
    IN  /\ RAdd(corner.x, RMul(ax, width)) =
             RAdd(call.pre.corner.x, RMul(ax, call.pre.width))
        /\ RAdd(corner.y, RMul(ay, height)) =
             RAdd(call.pre.corner.y, RMul(ay, call.pre.height))

\* an edge handle dragged through the element: the size is clamped to zero
C4_Witness ==
  /\ AspectCall
  /\ call.id = HANDLE_RESIZE_N
  /\ RGt(call.pre.width, Zero) /\ RGt(call.pre.height, Zero)
  /\ width = Zero /\ height = Zero
  /\ corner # call.pre.corner

\* C5: move_handle_aspect with a resize id leaves width = height * aspect;
\* a conformed size with a negative dimension gives width = height = 0; an
\* edge handle derives the dimension it does not set from the one it sets.
C5_AspectRatioKept ==
  (AspectCall /\ call.id \in ResizeIds) =>
    LET a  == call.aspect
        ww == AxisWanted(XSide(call.id), call.pre.corner.x, call.pre.width,
                         call.to.x)
        wh == AxisWanted(YSide(call.id), call.pre.corner.y, call.pre.height,
                         call.to.y)
        conformed == IF RGt(ww, RMul(wh, a)) THEN <<ww, RDiv(ww, a)>>
                     ELSE <<RMul(wh, a), wh>>
    IN  /\ width = RMul(height, a)
        /\ (RLt(conformed[1], Zero) \/ RLt(conformed[2], Zero)) =>
             (width = Zero /\ height = Zero)
        /\ call.id \in {HANDLE_RESIZE_W, HANDLE_RESIZE_E} =>
             /\ width = (IF RGt(ww, Zero) THEN ww ELSE Zero)
             /\ height = RDiv(width, a)
        /\ call.id \in {HANDLE_RESIZE_N, HANDLE_RESIZE_S} =>
             /\ height = (IF RGt(wh, Zero) THEN wh ELSE Zero)
             /\ width = RMul(height, a)

\* the east handle pulled out under a ratio other than 1
C5_Witness ==
  /\ AspectCall
  /\ call.id = HANDLE_RESIZE_E
  /\ call.aspect # One
  /\ RGt(width, call.pre.width)
  /\ height # call.pre.height

\* C6: move_handle and move_handle_aspect called with an id that is not a
\* resize id leave corner, width and height as they were, and move_handle
\* returns no undo record.
C6_OtherIdsRejected ==
  ((FreeCall \/ AspectCall) /\ call.id \notin ResizeIds) =>
    /\ Elem = call.pre
    /\ FreeCall => call.ret = "NULL"

C6_Witness ==
  /\ AspectCall
  /\ call.id = HANDLE_CUSTOM1
  /\ RGt(call.pre.width, Zero) /\ RGt(call.pre.height, Zero)

\* C7: an element element_init has initialized has num_handles >= 8 and
\* num_connections >= 9; a call with fewer does not initialize the object.
C7_InitNeedsEightAndNine ==
  initialized => (num_handles >= 8 /\ num_connections >= 9)

\* the handle and connection point i (0..7) of the canonical layout, as
\* fractions of the width and the height
CanonicalId ==
  <<HANDLE_RESIZE_NW, HANDLE_RESIZE_N, HANDLE_RESIZE_NE, HANDLE_RESIZE_W,
    HANDLE_RESIZE_E, HANDLE_RESIZE_SW, HANDLE_RESIZE_S, HANDLE_RESIZE_SE>>

CanonicalPos(i) ==
  LET fx == <<Zero, Half, One, Zero, One, Zero, Half, One>>
      fy == <<Zero, Zero, Zero, Half, Half, One, One, One>>
  IN  Point(RAdd(corner.x, RMul(fx[i + 1], width)),
            RAdd(corner.y, RMul(fy[i + 1], height)))

\* C8: once update_handles and update_connections_rectangle have run,
\* handle i (0..7) has id NW, N, NE, W, E, SW, S, SE and sits on its corner
\* or edge midpoint, cps[i].pos is the handle's position, and cps[8].pos is
\* the center.
C8_LayoutCanonical ==
  {"element_update_handles", "element_update_connections_rectangle"}
      \subseteq done =>
    /\ \A i \in 0 .. 7 :
         /\ resize_handles[i].id = CanonicalId[i + 1]
         /\ resize_handles[i].pos = CanonicalPos(i)
         /\ cps[i].pos = resize_handles[i].pos
    /\ cps[8].pos = Point(RAdd(corner.x, RMul(Half, width)),
                          RAdd(corner.y, RMul(Half, height)))

C8_Witness ==
  /\ {"element_update_handles", "element_update_connections_rectangle"}
       \subseteq done
  /\ width = One /\ height = R(MaxCoord)
  /\ corner # Origin

\* C9: after update_connections_directions every connection point
\* i < num_connections with the MAIN flag has ALL; any other has EAST iff
\* pos.x > center.x, WEST iff pos.x < center.x, SOUTH iff pos.y > center.y,
\* NORTH iff pos.y < center.y and nothing else, whatever it had before; the
\* mid-east point of an element with width > 0 has EAST only.
C9_DirectionsFromCenter ==
  call.op = "element_update_connections_directions" =>
    LET cx == RAdd(corner.x, RMul(Half, width))
        cy == RAdd(corner.y, RMul(Half, height))
    IN  /\ \A i \in 0 .. num_connections - 1 :
             IF cps[i].flags = CP_FLAGS_MAIN
               THEN cps[i].directions = {"N", "E", "S", "W"}
               ELSE /\ "E" \in cps[i].directions <=> RGt(cps[i].pos.x, cx)
                    /\ "W" \in cps[i].directions <=> RLt(cps[i].pos.x, cx)
                    /\ "S" \in cps[i].directions <=> RGt(cps[i].pos.y, cy)
                    /\ "N" \in cps[i].directions <=> RLt(cps[i].pos.y, cy)
                    /\ cps[i].directions \subseteq {"N", "E", "S", "W"}
        /\ ("element_update_connections_rectangle" \in done /\ RGt(width, Zero))
             => cps[4].directions = {"E"}

C9_Witness ==
  /\ call.op = "element_update_connections_directions"
  /\ "element_update_connections_rectangle" \in done
  /\ RGt(width, Zero) /\ height = Zero
  /\ cps[4].directions = {"E"}
  /\ cps[8].flags # CP_FLAGS_MAIN /\ cps[8].directions = {}
  /\ num_connections = 10 /\ cps[9].flags = CP_FLAGS_MAIN
  /\ cps[9].directions = {"N", "E", "S", "W"}

\* C10: two consecutive swaps (apply or revert) of a record leave the
\* element and the record exactly as they were before the first.
C10_SwapInvolution == swaps.count = 2 => Snapshot = swaps.before2

C10_Witness ==
  /\ swaps.count = 2
  /\ gesture.moves > 0
  /\ swaps.before1 # Snapshot
  /\ RecordPose # Elem

====
